---- MODULE Spec2Model ----
(***************************************************************************)
(* Model of src/app/main.py: the MQTT -> MongoDB logger.                   *)
(*                                                                         *)
(* The process (the __main__ block) connects to MongoDB with retry, then   *)
(* to the MQTT broker with retry, subscribes the configured topics,        *)
(* registers userdata and on_message and enters loop_forever, which        *)
(* dispatches every received message to on_message.  The database server,  *)
(* the broker and the wall clock are the environment.                      *)
(***************************************************************************)
EXTENDS Integers, Sequences, FiniteSets, TLC

\* ------------------------------------------------------------------ bounds
MaxRetries == 2      \* failed connect attempts explored, both dependencies together
MaxMsgs    == 2      \* messages the broker delivers
MaxTicks   == 1      \* one-second advances of the wall clock
MaxOutages == 1      \* outages of each server after it was first reachable

\* --------------------------------------------------------------- constants
RetryDelay    == 5         \* time.sleep(5)
SecondsPerDay == 86400
None          == 0         \* Python's None; handles are 1, 2, ...

\* cli_args.mqtt_topics: the default ["#"] or an explicit list
TopicConfigs == { <<"#">>, <<"home/bedroom", "home/kitchen">> }

\* wall-clock instants (seconds since 2023-12-08 00:00:00) the process may
\* start at: the last second before midnight
StartInstants == { 86399 }

VARIABLES
    pc,               \* position of the main thread
    exc,              \* the uncaught exception that ended the process, or "none"
    mqtt_topics,      \* cli_args.mqtt_topics
    db,               \* main's variable db  (handle or None)
    client,           \* main's variable client (handle or None)
    nextHandle,       \* identity of the next object constructed
    topicIdx,         \* position of the for loop over cli_args.mqtt_topics
    userdata,         \* client._userdata
    handlerSet,       \* client.on_message is on_message
    log,              \* records emitted through logger
    now,              \* the wall clock, in seconds
    ticks,            \* number of Tick steps taken
    mongoUp,          \* the MongoDB server is reachable
    brokerUp,         \* the MQTT broker is reachable
    outages,          \* outages so far, per server
    sessionConnected, \* the client's session with the broker is established
    sessionHandle,    \* the client object that owns that session
    brokerSubs,       \* the broker's subscription set for the session
    inbox,            \* messages received by the transport, not yet dispatched
    delivered,        \* number of messages the broker has delivered
    cur,              \* on_message's message
    h,                \* on_message's locals
    collections,      \* the database: collection name -> documents
    attempts,         \* history: results of the connect attempts, per dependency
    sleeps,           \* history: durations slept between attempts, per dependency
    history           \* history: what became of each dispatched message

vars == << pc, exc, mqtt_topics, db, client, nextHandle, topicIdx, userdata,
           handlerSet, log, now, ticks, mongoUp, brokerUp, outages,
           sessionConnected, sessionHandle, brokerSubs, inbox, delivered,
           cur, h, collections, attempts, sleeps, history >>

\* ---------------------------------------------------------- pure functions

\* bytes.decode("utf-8"): width of the well-formed UTF-8 sequence that starts
\* bs, or 0 when bs starts with an ill-formed one (UnicodeDecodeError)
IsCont(b) == b >= 128 /\ b <= 191

Utf8Width(bs) ==
    LET n == Len(bs)
        b == bs[1]
    IN  IF b < 128 THEN 1
        ELSE IF b >= 194 /\ b <= 223 /\ n >= 2 /\ IsCont(bs[2]) THEN 2
        ELSE IF b >= 224 /\ b <= 239 /\ n >= 3 /\ IsCont(bs[2]) /\ IsCont(bs[3])
                /\ (b = 224 => bs[2] >= 160) /\ (b = 237 => bs[2] <= 159) THEN 3
        ELSE IF b >= 240 /\ b <= 244 /\ n >= 4 /\ IsCont(bs[2]) /\ IsCont(bs[3])
                /\ IsCont(bs[4])
                /\ (b = 240 => bs[2] >= 144) /\ (b = 244 => bs[2] <= 143) THEN 4
        ELSE 0

Utf8CodePoint(bs, w) ==
    IF w = 1 THEN bs[1]
    ELSE IF w = 2 THEN (bs[1] - 192) * 64 + (bs[2] - 128)
    ELSE IF w = 3 THEN (bs[1] - 224) * 4096 + (bs[2] - 128) * 64 + (bs[3] - 128)
    ELSE (bs[1] - 240) * 262144 + (bs[2] - 128) * 4096
         + (bs[3] - 128) * 64 + (bs[4] - 128)

RECURSIVE Utf8Decode(_)
Utf8Decode(bs) ==
    IF bs = <<>> THEN [ok |-> TRUE, text |-> <<>>]
    ELSE LET w == Utf8Width(bs)
         IN  IF w = 0 THEN [ok |-> FALSE, text |-> <<>>]
             ELSE LET rest == Utf8Decode(SubSeq(bs, w + 1, Len(bs)))
                  IN  IF rest.ok
                      THEN [ok |-> TRUE,
                            text |-> <<Utf8CodePoint(bs, w)>> \o rest.text]
                      ELSE [ok |-> FALSE, text |-> <<>>]

\* json.loads on a str, for scalar documents: null, true, false, integers
\* and strings without escapes, with surrounding JSON whitespace.  Values
\* are [kind, n, s]; anything else in the modelled alphabet is a
\* JSONDecodeError.
IsWs(c)    == c \in {32, 9, 10, 13}
IsDigit(c) == c >= 48 /\ c <= 57

RECURSIVE LStrip(_)
LStrip(t) == IF t # <<>> /\ IsWs(t[1]) THEN LStrip(Tail(t)) ELSE t

RECURSIVE RStrip(_)
RStrip(t) ==
    IF t # <<>> /\ IsWs(t[Len(t)]) THEN RStrip(SubSeq(t, 1, Len(t) - 1)) ELSE t

RECURSIVE DigitsValue(_)
DigitsValue(t) ==
    IF t = <<>> THEN 0
    ELSE DigitsValue(SubSeq(t, 1, Len(t) - 1)) * 10 + (t[Len(t)] - 48)

IsNatLiteral(t) ==
    /\ t # <<>>
    /\ \A i \in 1..Len(t) : IsDigit(t[i])
    /\ (Len(t) > 1 => t[1] # 48)

IsStringLiteral(t) ==
    /\ Len(t) >= 2
    /\ t[1] = 34
    /\ t[Len(t)] = 34
    /\ \A i \in 2..(Len(t) - 1) : t[i] # 34 /\ t[i] # 92 /\ t[i] >= 32

JsonError == [ok |-> FALSE, value |-> [kind |-> "error", n |-> 0, s |-> <<>>]]

JsonValue(k, num, str) == [ok |-> TRUE, value |-> [kind |-> k, n |-> num, s |-> str]]

JsonLoads(text) ==
    LET t == RStrip(LStrip(text))
    IN  IF t = <<110, 117, 108, 108>> THEN JsonValue("null", 0, <<>>)
        ELSE IF t = <<116, 114, 117, 101>> THEN JsonValue("bool", 1, <<>>)
        ELSE IF t = <<102, 97, 108, 115, 101>> THEN JsonValue("bool", 0, <<>>)
        ELSE IF IsNatLiteral(t) THEN JsonValue("int", DigitsValue(t), <<>>)
        ELSE IF t # <<>> /\ t[1] = 45 /\ IsNatLiteral(Tail(t))
             THEN JsonValue("int", 0 - DigitsValue(Tail(t)), <<>>)
        ELSE IF IsStringLiteral(t)
             THEN JsonValue("str", 0, SubSeq(t, 2, Len(t) - 1))
        ELSE JsonError

\* time.strftime("%Y-%m-%d") and time.strftime("%H:%M:%S") at clock value t
\* (seconds since 2023-12-08 00:00:00 local time; the model stays in
\* December 2023): the fields of the formatted string
StrftimeDate(t) == << 2023, 12, 8 + (t \div SecondsPerDay) >>

StrftimeTime(t) ==
    LET s == t % SecondsPerDay
    IN  << s \div 3600, (s % 3600) \div 60, s % 60 >>

\* raw payloads publishers send (bytes)
PayloadInt      == << 55 >>                     \* 7
PayloadNegative == << 32, 45, 49, 50, 10 >>     \* " -12\n"
PayloadString   == << 34, 195, 169, 34 >>       \* a JSON string holding U+00E9
PayloadNotJson  == << 110, 111, 116, 45, 106 >> \* not-j
PayloadNotUtf8  == << 34, 195, 34 >>            \* a truncated two-byte sequence

\* the publications the broker may forward: (concrete topic, payload)
Publications ==
    { << "home/bedroom", PayloadInt >>,
      << "home/kitchen", PayloadInt >>,
      << "home/bedroom", PayloadNegative >>,
      << "home/kitchen", PayloadString >>,
      << "home/bedroom", PayloadNotJson >>,
      << "home/kitchen", PayloadNotUtf8 >> }

\* MQTT topic matching for the filters of TopicConfigs: the multi-level
\* wildcard matches every topic, any other filter matches itself
Matches(filter, topic) == filter = "#" \/ filter = topic

SeqToSet(s) == { s[i] : i \in 1..Len(s) }

\* ------------------------------------------------------------------- state

LogRec(level, msg, args) == [level |-> level, msg |-> msg, args |-> args]

NoMessage == [id |-> 0, topic |-> "", payload |-> <<>>]

NoLocals ==
    [db |-> None, topic |-> "", payload |-> <<>>, date |-> <<>>,
     time_ |-> <<>>, collection |-> <<>>, document |-> <<>>]

NoUserdata == [db |-> None, logger |-> FALSE]

Init ==
    /\ pc = "mongo_connect"
    /\ exc = "none"
    /\ mqtt_topics \in TopicConfigs
    /\ db = None
    /\ client = None
    /\ nextHandle = 1
    /\ topicIdx = 1
    /\ userdata = NoUserdata
    /\ handlerSet = FALSE
    /\ log = <<>>
    /\ now \in StartInstants
    /\ ticks = 0
    /\ mongoUp = FALSE
    /\ brokerUp = FALSE
    /\ outages = [mongo |-> 0, mqtt |-> 0]
    /\ sessionConnected = FALSE
    /\ sessionHandle = None
    /\ brokerSubs = {}
    /\ inbox = <<>>
    /\ delivered = 0
    /\ cur = NoMessage
    /\ h = NoLocals
    /\ collections = <<>>
    /\ attempts = [mongo |-> <<>>, mqtt |-> <<>>]
    /\ sleeps = [mongo |-> <<>>, mqtt |-> <<>>]
    /\ history = <<>>

envVars  == << now, ticks, mongoUp, brokerUp, outages >>
sessVars == << sessionConnected, sessionHandle, brokerSubs, inbox, delivered >>
hdlVars  == << cur, h, collections, history >>
regVars  == << topicIdx, userdata, handlerSet >>

Failed(dep) == Len(SelectSeq(attempts[dep], LAMBDA r : ~r.ok))

RetriesLeft == Failed("mongo") + Failed("mqtt") < MaxRetries

\* ------------------------------------------------- connect_to_mongodb, main

\* leaving the retry loop whatever connect_to_mongodb returned
AfterMongoConnectAlways(result) == "mqtt_connect"

\* lines 232-233: if db is not None: break
AfterMongoConnect(result) ==
    IF result # None THEN "mqtt_connect" ELSE "mongo_retry"

\* one object shared by all connect calls instead of a new one per call
NextHandleSame(n) == n

\* lines 97 and 124: every call of a connect function constructs a new
\* MongoClient / mqtt.Client object
NextHandleAfter(n) == n + 1

\* a connect without the round trip: MongoClient(...) alone connects
\* lazily and does not fail when the server is unreachable
ServerInfoSkipped == TRUE

\* line 98: client.server_info() returns iff the server answers; otherwise
\* it raises ServerSelectionTimeoutError
ServerInfoOk == mongoUp

\* lines 231-233: db = connect_to_mongodb(cli_args, logger), then the test
\* of db.  The call logs "Connecting", builds a MongoClient and pings the
\* server with server_info(); ServerSelectionTimeoutError, which is what an
\* unreachable server raises, is caught, logged and turned into None.
connect_to_mongodb ==
    /\ pc = "mongo_connect"
    /\ mongoUp \/ RetriesLeft
    /\ nextHandle' = NextHandleAfter(nextHandle)
    /\ attempts' = [attempts EXCEPT !.mongo =
                        Append(@, [ok |-> mongoUp, at |-> now, handle |-> nextHandle])]
    /\ IF ServerInfoOk
       THEN /\ log' = log \o << LogRec("INFO", "Connecting to MongoDB", <<>>),
                               LogRec("INFO", "Connected to MongoDB", <<>>) >>
            /\ db' = nextHandle
            /\ pc' = AfterMongoConnect(nextHandle)
       ELSE /\ log' = log \o << LogRec("INFO", "Connecting to MongoDB", <<>>),
                               LogRec("ERROR", "The server is down or has refused the connection", <<>>) >>
            /\ db' = None
            /\ pc' = AfterMongoConnect(None)
    /\ UNCHANGED << exc, mqtt_topics, client, envVars, sessVars, hdlVars,
                    regVars, sleeps >>

\* a back-off that grows with the number of retries
SleepGrowing(dep) == RetryDelay * (Len(sleeps[dep]) + 1)

\* lines 235 and 243: the argument of time.sleep
SleepFor(dep) == RetryDelay

\* lines 234-235: logger.info("Retrying ..."); time.sleep(5)
mongo_retry ==
    /\ pc = "mongo_retry"
    /\ log' = Append(log, LogRec("INFO", "Retrying to connect to MongoDB", <<>>))
    /\ now' = now + SleepFor("mongo")
    /\ sleeps' = [sleeps EXCEPT !.mongo = Append(@, SleepFor("mongo"))]
    /\ pc' = "mongo_connect"
    /\ UNCHANGED << exc, mqtt_topics, db, client, nextHandle, ticks, mongoUp,
                    brokerUp, outages, sessVars, hdlVars, regVars, attempts >>

\* ---------------------------------------------------- connect_to_mqtt, main

\* what client.connect raises when the broker cannot be reached: a timeout,
\* a refusal, a host name that does not resolve (socket.gaierror) or a
\* missing route (OSError, EHOSTUNREACH)
ConnectErrors == { "TimeoutError", "ConnectionRefusedError", "gaierror", "OSError" }

\* the except clauses of lines 137 and 141
Caught(e) == e \in { "TimeoutError", "ConnectionRefusedError" }

ErrorText(e) ==
    IF e = "TimeoutError" THEN "Connection timed out"
    ELSE "The server has refused the connection"

\* a broker failure that sends the process back to the database loop
AfterMqttConnectRestart(result) ==
    IF result # None THEN "subscribe" ELSE "mongo_connect"

\* lines 240-241: if client is not None: break
AfterMqttConnect(result) ==
    IF result # None THEN "subscribe" ELSE "mqtt_retry"

\* lines 239-241: client = connect_to_mqtt(cli_args, logger), then the test
\* of client.  The call logs "Connecting", builds a Client with
\* clean_session=True and connects; an exception no except clause names
\* leaves connect_to_mqtt and the main block and ends the process.
connect_to_mqtt ==
    /\ pc = "mqtt_connect"
    /\ brokerUp \/ RetriesLeft
    /\ nextHandle' = NextHandleAfter(nextHandle)
    /\ attempts' = [attempts EXCEPT !.mqtt =
                        Append(@, [ok |-> brokerUp, at |-> now, handle |-> nextHandle])]
    /\ IF brokerUp
       THEN /\ log' = log \o << LogRec("INFO", "Connecting to MQTT Broker", <<>>),
                               LogRec("INFO", "Connected to MQTT Broker", <<>>) >>
            /\ client' = nextHandle
            /\ sessionConnected' = TRUE
            /\ sessionHandle' = nextHandle
            /\ brokerSubs' = {}
            /\ pc' = AfterMqttConnect(nextHandle)
            /\ exc' = exc
       ELSE \E e \in ConnectErrors :
            /\ client' = None
            /\ UNCHANGED << sessionConnected, sessionHandle, brokerSubs >>
            /\ IF Caught(e)
               THEN /\ log' = log \o << LogRec("INFO", "Connecting to MQTT Broker", <<>>),
                                       LogRec("ERROR", ErrorText(e), <<>>) >>
                    /\ pc' = AfterMqttConnect(None)
                    /\ exc' = exc
               ELSE /\ log' = Append(log, LogRec("INFO", "Connecting to MQTT Broker", <<>>))
                    /\ pc' = "crashed"
                    /\ exc' = e
    /\ UNCHANGED << mqtt_topics, db, envVars, inbox, delivered, hdlVars,
                    regVars, sleeps >>

\* lines 242-243: logger.info("Retrying ..."); time.sleep(5)
mqtt_retry ==
    /\ pc = "mqtt_retry"
    /\ log' = Append(log, LogRec("INFO", "Retrying to connect to MQTT Broker", <<>>))
    /\ now' = now + SleepFor("mqtt")
    /\ sleeps' = [sleeps EXCEPT !.mqtt = Append(@, SleepFor("mqtt"))]
    /\ pc' = "mqtt_connect"
    /\ UNCHANGED << exc, mqtt_topics, db, client, nextHandle, ticks, mongoUp,
                    brokerUp, outages, sessVars, hdlVars, regVars, attempts >>

\* lines 246-247: one iteration of  for topic in cli_args.mqtt_topics:
\* client.subscribe(topic).  Without a connection subscribe returns
\* MQTT_ERR_NO_CONN and the broker learns nothing.
subscribe ==
    /\ pc = "subscribe"
    /\ topicIdx <= Len(mqtt_topics)
    /\ brokerSubs' = IF sessionConnected /\ sessionHandle = client
                     THEN brokerSubs \cup { mqtt_topics[topicIdx] }
                     ELSE brokerSubs
    /\ topicIdx' = topicIdx + 1
    /\ pc' = IF topicIdx = Len(mqtt_topics) THEN "user_data_set" ELSE "subscribe"
    /\ UNCHANGED << exc, mqtt_topics, db, client, nextHandle, userdata,
                    handlerSet, log, envVars, sessionConnected, sessionHandle,
                    inbox, delivered, hdlVars, attempts, sleeps >>

\* a main block that never registers the context
UserdataMissing == NoUserdata

\* lines 250-253: the dictionary {"db": db, "logger": logger}
UserdataValue == [db |-> db, logger |-> TRUE]

\* lines 250-253: client.user_data_set({"db": db, "logger": logger})
user_data_set ==
    /\ pc = "user_data_set"
    /\ userdata' = UserdataValue
    /\ pc' = "set_on_message"
    /\ UNCHANGED << exc, mqtt_topics, db, client, nextHandle, topicIdx,
                    handlerSet, log, envVars, sessVars, hdlVars, attempts, sleeps >>

\* line 256: client.on_message = on_message
set_on_message ==
    /\ pc = "set_on_message"
    /\ handlerSet' = TRUE
    /\ pc' = "loop_forever"
    /\ UNCHANGED << exc, mqtt_topics, db, client, nextHandle, topicIdx,
                    userdata, log, envVars, sessVars, hdlVars, attempts, sleeps >>

\* ------------------------------------------------- loop_forever, on_message

LastIdx == Len(history)

SetOutcome(o) == [history EXCEPT ![LastIdx].outcome = o]

\* a loop that hands out the newest received message first
PickNewest(box) == Len(box)

\* line 259, paho's loop_forever: the position in the receive buffer of the
\* message handed to the callback next (the oldest one)
PickIndex(box) == 1

\* a loop that leaves the dispatched message in the buffer
RemainingAll(box, k) == box

\* line 259: the receive buffer after message k was handed to the callback
Remaining(box, k) == SubSeq(box, 1, k - 1) \o SubSeq(box, k + 1, Len(box))

\* line 259, paho's loop_forever: the next received message is handed to the
\* registered callback as on_message(client, userdata, message); lines
\* 160-166 read db, logger and topic
dispatch ==
    /\ pc = "loop_forever"
    /\ handlerSet
    /\ inbox # <<>>
    /\ LET m == inbox[PickIndex(inbox)]
       IN  /\ cur' = m
           /\ inbox' = Remaining(inbox, PickIndex(inbox))
           /\ h' = [NoLocals EXCEPT !.db = userdata.db, !.topic = m.topic]
           /\ history' = Append(history,
                 [id |-> m.id, topic |-> m.topic, payload |-> m.payload,
                  startedAt |-> now, logStart |-> Len(log),
                  userdata |-> userdata, outcome |-> "in_progress",
                  insertCalls |-> 0, insertedAt |-> 0, written |-> <<>>])
    /\ pc' = "h_decode"
    /\ UNCHANGED << exc, mqtt_topics, db, client, nextHandle, regVars, log,
                    envVars, sessionConnected, sessionHandle, brokerSubs,
                    delivered, collections, attempts, sleeps >>

\* line 169: payload = message.payload.decode("utf-8").  on_message has no
\* try block and loop_forever re-raises what the callback raises, so a
\* UnicodeDecodeError leaves on_message, loop_forever and the main block.
h_decode ==
    /\ pc = "h_decode"
    /\ LET r == Utf8Decode(cur.payload)
       IN  IF r.ok
           THEN /\ h' = [h EXCEPT !.payload = r.text]
                /\ pc' = "h_date"
                /\ UNCHANGED << exc, history >>
           ELSE /\ pc' = "crashed"
                /\ exc' = "UnicodeDecodeError"
                /\ history' = SetOutcome("decode_error")
                /\ h' = h
    /\ UNCHANGED << mqtt_topics, db, client, nextHandle, regVars, log, envVars,
                    sessVars, cur, collections, attempts, sleeps >>

\* line 172: date = time.strftime("%Y-%m-%d")
h_date ==
    /\ pc = "h_date"
    /\ h' = [h EXCEPT !.date = StrftimeDate(now)]
    /\ pc' = "h_time"
    /\ UNCHANGED << exc, mqtt_topics, db, client, nextHandle, regVars, log,
                    envVars, sessVars, cur, collections, history, attempts,
                    sleeps >>

\* line 175: time_ = time.strftime("%H:%M:%S")
h_time ==
    /\ pc = "h_time"
    /\ h' = [h EXCEPT !.time_ = StrftimeTime(now)]
    /\ pc' = "h_document"
    /\ UNCHANGED << exc, mqtt_topics, db, client, nextHandle, regVars, log,
                    envVars, sessVars, cur, collections, history, attempts,
                    sleeps >>

\* a collection chosen by reading the clock again
CollectionNameNow(locals) == StrftimeDate(now)

\* one collection per date and topic
CollectionNameByTopic(locals) == locals.date \o << locals.topic >>

\* line 178: the name of the collection the document goes to
CollectionName(locals) == locals.date

\* a document that keeps the payload text instead of the parsed value
DocumentRaw(locals, value) ==
    [topic |-> locals.topic, date |-> locals.date, time |-> locals.time_,
     payload |-> [kind |-> "str", n |-> 0, s |-> locals.payload]]

\* lines 181-186: the document built from the locals and the parsed payload
Document(locals, value) ==
    [topic |-> locals.topic, date |-> locals.date, time |-> locals.time_,
     payload |-> value]

\* lines 178-186: collection = db[date]; document = {...} with
\* json.loads(payload), whose JSONDecodeError is not caught either
h_document ==
    /\ pc = "h_document"
    /\ LET r == JsonLoads(h.payload)
       IN  IF r.ok
           THEN /\ h' = [h EXCEPT !.collection = CollectionName(h),
                                  !.document = Document(h, r.value)]
                /\ pc' = "h_insert"
                /\ UNCHANGED << exc, history >>
           ELSE /\ h' = [h EXCEPT !.collection = CollectionName(h)]
                /\ pc' = "crashed"
                /\ exc' = "JSONDecodeError"
                /\ history' = SetOutcome("json_error")
    /\ UNCHANGED << mqtt_topics, db, client, nextHandle, regVars, log, envVars,
                    sessVars, cur, collections, attempts, sleeps >>

\* the server's insert: the collection is created by its first document
InsertOne(colls, name, doc) ==
    [n \in (DOMAIN colls) \cup {name} |->
        IF n = name
        THEN (IF n \in DOMAIN colls THEN Append(colls[n], doc) ELSE << doc >>)
        ELSE colls[n]]

\* line 189: collection.insert_one(document).  With the server unreachable
\* the driver raises (AutoReconnect / ServerSelectionTimeoutError), which is
\* not caught.
h_insert ==
    /\ pc = "h_insert"
    /\ IF mongoUp
       THEN /\ collections' = InsertOne(collections, h.collection, h.document)
            /\ history' = [history EXCEPT
                  ![LastIdx].insertCalls = @ + 1,
                  ![LastIdx].insertedAt = now,
                  ![LastIdx].written =
                      Append(@, [coll |-> h.collection, doc |-> h.document,
                                 db |-> h.db])]
            /\ pc' = "h_log"
            /\ exc' = exc
       ELSE /\ collections' = collections
            /\ history' = [history EXCEPT ![LastIdx].insertCalls = @ + 1,
                                          ![LastIdx].outcome = "write_error"]
            /\ pc' = "crashed"
            /\ exc' = "AutoReconnect"
    /\ UNCHANGED << mqtt_topics, db, client, nextHandle, regVars, log, envVars,
                    sessVars, cur, h, attempts, sleeps >>

\* a logger that emits the record once per attached handler, with two
\* handlers attached
MessageRecordsTwice(locals) ==
    << LogRec("INFO", "Topic | Time | Payload",
              << locals.topic, locals.time_, locals.payload >>),
       LogRec("INFO", "Topic | Time | Payload",
              << locals.topic, locals.time_, locals.payload >>) >>

\* line 192: the records logger.info(f"Topic: ... | Time: ... | Payload: ...")
\* emits
MessageRecords(locals) ==
    << LogRec("INFO", "Topic | Time | Payload",
              << locals.topic, locals.time_, locals.payload >>) >>

\* line 192: logger.info(...), then on_message returns to loop_forever
h_log ==
    /\ pc = "h_log"
    /\ log' = log \o MessageRecords(h)
    /\ history' = SetOutcome("stored")
    /\ cur' = NoMessage
    /\ h' = NoLocals
    /\ pc' = "loop_forever"
    /\ UNCHANGED << exc, mqtt_topics, db, client, nextHandle, regVars, envVars,
                    sessVars, collections, attempts, sleeps >>

\* the subscriptions of the session after loop_forever reconnected: the
\* session is a clean one (line 124) and main.py registers no on_connect
\* callback, so none of the configured topics is subscribed again
Resubscribed(topics) == {}

\* line 259, paho's loop_forever after a connection loss: it reconnects by
\* itself once the broker is back
loop_reconnect ==
    /\ pc = "loop_forever"
    /\ ~sessionConnected
    /\ brokerUp
    /\ sessionConnected' = TRUE
    /\ brokerSubs' = Resubscribed(mqtt_topics)
    /\ UNCHANGED << pc, exc, mqtt_topics, db, client, nextHandle, regVars, log,
                    envVars, sessionHandle, inbox, delivered, hdlVars, attempts,
                    sleeps >>

\* ------------------------------------------------------------- environment

Alive == pc # "crashed"

\* the broker forwards a publication that matches a subscription of the
\* session
publish ==
    /\ Alive
    /\ sessionConnected
    /\ delivered < MaxMsgs
    /\ \E m \in Publications :
          /\ \E f \in brokerSubs : Matches(f, m[1])
          /\ inbox' = Append(inbox, [id |-> delivered + 1, topic |-> m[1],
                                     payload |-> m[2]])
    /\ delivered' = delivered + 1
    /\ UNCHANGED << pc, exc, mqtt_topics, db, client, nextHandle, regVars, log,
                    envVars, sessionConnected, sessionHandle, brokerSubs,
                    hdlVars, attempts, sleeps >>

\* the broker becomes unreachable after the client connected: the session
\* is lost, and with it (clean session) its subscriptions
broker_down ==
    /\ Alive
    /\ brokerUp
    /\ sessionConnected
    /\ outages.mqtt < MaxOutages
    /\ brokerUp' = FALSE
    /\ outages' = [outages EXCEPT !.mqtt = @ + 1]
    /\ sessionConnected' = FALSE
    /\ brokerSubs' = {}
    /\ UNCHANGED << pc, exc, mqtt_topics, db, client, nextHandle, regVars, log,
                    now, ticks, mongoUp, sessionHandle, inbox, delivered,
                    hdlVars, attempts, sleeps >>

broker_up ==
    /\ ~brokerUp
    /\ brokerUp' = TRUE
    /\ UNCHANGED << pc, exc, mqtt_topics, db, client, nextHandle, regVars, log,
                    now, ticks, mongoUp, outages, sessVars, hdlVars, attempts,
                    sleeps >>

\* the database server becomes unreachable while a write is due (the only
\* use the process makes of the server after it connected)
mongo_down ==
    /\ pc = "h_insert"
    /\ mongoUp
    /\ outages.mongo < MaxOutages
    /\ mongoUp' = FALSE
    /\ outages' = [outages EXCEPT !.mongo = @ + 1]
    /\ UNCHANGED << pc, exc, mqtt_topics, db, client, nextHandle, regVars, log,
                    now, ticks, brokerUp, sessVars, hdlVars, attempts, sleeps >>

mongo_up ==
    /\ ~mongoUp
    /\ mongoUp' = TRUE
    /\ UNCHANGED << pc, exc, mqtt_topics, db, client, nextHandle, regVars, log,
                    now, ticks, brokerUp, outages, sessVars, hdlVars, attempts,
                    sleeps >>

\* the wall clock advances by one second while messages are handled (the
\* clock is read by on_message only; StartInstants covers what went before)
tick ==
    /\ pc \in { "loop_forever", "h_decode", "h_date", "h_time", "h_document",
                "h_insert", "h_log" }
    /\ ticks < MaxTicks
    /\ now' = now + 1
    /\ ticks' = ticks + 1
    /\ UNCHANGED << pc, exc, mqtt_topics, db, client, nextHandle, regVars, log,
                    mongoUp, brokerUp, outages, sessVars, hdlVars, attempts,
                    sleeps >>

Next ==
    \/ connect_to_mongodb
    \/ mongo_retry
    \/ connect_to_mqtt
    \/ mqtt_retry
    \/ subscribe
    \/ user_data_set
    \/ set_on_message
    \/ dispatch
    \/ h_decode
    \/ h_date
    \/ h_time
    \/ h_document
    \/ h_insert
    \/ h_log
    \/ loop_reconnect
    \/ publish
    \/ broker_down
    \/ broker_up
    \/ mongo_down
    \/ mongo_up
    \/ tick

Spec == Init /\ [][Next]_vars

TypeOK ==
    /\ pc \in { "mongo_connect", "mongo_retry", "mqtt_connect", "mqtt_retry",
                "subscribe", "user_data_set", "set_on_message", "loop_forever",
                "h_decode", "h_date", "h_time", "h_document", "h_insert",
                "h_log", "crashed" }
    /\ db \in Nat /\ client \in Nat
    /\ delivered \in 0..MaxMsgs

\* ------------------------------------------------------------------ claims

HandlerPcs == { "h_decode", "h_date", "h_time", "h_document", "h_insert", "h_log" }

RunningPcs == HandlerPcs \cup { "loop_forever" }

\* the JSON values of the payloads of Publications, written out by hand
ValidPayloads == { PayloadInt, PayloadNegative, PayloadString }

ExpectedJson(p) ==
    IF p = PayloadInt THEN [kind |-> "int", n |-> 7, s |-> <<>>]
    ELSE IF p = PayloadNegative THEN [kind |-> "int", n |-> 0 - 12, s |-> <<>>]
    ELSE [kind |-> "str", n |-> 0, s |-> << 233 >>]

RECURSIVE CountDocs(_)
CountDocs(names) ==
    IF names = {} THEN 0
    ELSE LET n == CHOOSE x \in names : TRUE
         IN  Len(collections[n]) + CountDocs(names \ {n})

TotalDocs == CountDocs(DOMAIN collections)

RECURSIVE CountWritten(_)
CountWritten(k) ==
    IF k = 0 THEN 0 ELSE Len(history[k].written) + CountWritten(k - 1)

InCollection(w) ==
    /\ w.coll \in DOMAIN collections
    /\ \E j \in 1..Len(collections[w.coll]) : collections[w.coll][j] = w.doc

ErrorsSince(k) ==
    Len(SelectSeq(SubSeq(log, k + 1, Len(log)), LAMBDA r : r.level = "ERROR"))

Malformed(e) == e.outcome \in { "decode_error", "json_error" }

\* C2: for a received message whose payload is not UTF-8 or not JSON, no
\* document is written and exactly one error record reaches the logger.
C2_MalformedDroppedAndReported ==
    \A i \in 1..Len(history) :
        Malformed(history[i]) =>
            /\ history[i].written = <<>>
            /\ ErrorsSince(history[i].logStart) = 1

\* C3: when insert_one raises, no document is written for the message, one
\* error record reaches the logger, and the process is still running (in
\* the receive loop or handling a later message).
C3_WriteFailureDroppedAndReported ==
    \A i \in 1..Len(history) :
        history[i].outcome = "write_error" =>
            /\ history[i].written = <<>>
            /\ ErrorsSince(history[i].logStart) = 1
            /\ pc \in RunningPcs

\* C4: a malformed message (decode or parse failure in on_message) never
\* ends the receive loop or the process.
C4_MalformedNeverEndsLoop ==
    (\E i \in 1..Len(history) : Malformed(history[i])) => pc \in RunningPcs

\* C5: whenever the session is connected and the process is in the receive
\* loop, the broker's subscription set for the session is the configured
\* topic list.
C5_SubscribedWheneverConnected ==
    (pc \in RunningPcs /\ sessionConnected) => brokerSubs = SeqToSet(mqtt_topics)

\* C6: a failed connect attempt never terminates the process, whatever the
\* reason the dependency is unreachable: after a failed attempt the process
\* is in the retry path of that dependency or further on.
C6_ConnectFailureNeverFatal ==
    \A dep \in { "mongo", "mqtt" } :
        (attempts[dep] # <<>> /\ ~attempts[dep][Len(attempts[dep])].ok) =>
            pc # "crashed"

ConnectPc(dep) == IF dep = "mongo" THEN "mongo_connect" ELSE "mqtt_connect"

ConnectedText(dep) ==
    IF dep = "mongo" THEN "Connected to MongoDB" ELSE "Connected to MQTT Broker"

ConnectedRecords(dep) ==
    Len(SelectSeq(log, LAMBDA r : r.msg = ConnectedText(dep)))

\* C7: while a dependency is unreachable the connect attempts are separated
\* by one sleep of 5 seconds each, the same for every retry: consecutive
\* attempts are exactly 5 seconds apart (an attempt itself takes no time
\* here), there is one sleep per attempt that was retried, no attempt
\* follows a successful one, and "Connected" is logged once per dependency,
\* by the successful attempt.
C7_FixedIntervalUntilSuccess ==
    \A dep \in { "mongo", "mqtt" } :
        LET a == attempts[dep]
            z == sleeps[dep]
        IN  /\ \A i \in 1..Len(z) : z[i] = 5
            /\ Len(z) = IF a = <<>> \/ pc = ConnectPc(dep)
                        THEN Len(a) ELSE Len(a) - 1
            /\ \A i \in 1..(Len(a) - 1) :
                  /\ ~a[i].ok
                  /\ a[i + 1].at - a[i].at = 5
            /\ ConnectedRecords(dep) =
                  IF a # <<>> /\ a[Len(a)].ok THEN 1 ELSE 0

\* the database was reached at the third attempt, after two sleeps
C7_Witness ==
    /\ Len(attempts.mongo) = 3
    /\ attempts.mongo[3].ok
    /\ Len(sleeps.mongo) = 2
    /\ db # None

\* C9: the broker is not tried while the database is disconnected, and
\* nothing is subscribed, registered or dispatched before both connect
\* calls have returned a handle.
C9_StartupOrder ==
    /\ (attempts.mqtt # <<>> \/ pc \in { "mqtt_connect", "mqtt_retry" }) =>
          /\ db # None
          /\ attempts.mongo[Len(attempts.mongo)].ok
    /\ ( \/ topicIdx > 1
         \/ brokerSubs # {}
         \/ handlerSet
         \/ userdata # NoUserdata
         \/ history # <<>>
         \/ pc \in RunningPcs \cup { "subscribe", "user_data_set", "set_on_message" } ) =>
          /\ db # None
          /\ client # None
          /\ attempts.mongo[Len(attempts.mongo)].ok
          /\ attempts.mqtt[Len(attempts.mqtt)].ok

\* the receive loop was entered after a retry of each dependency
C9_Witness ==
    /\ pc = "loop_forever"
    /\ Failed("mongo") > 0
    /\ Failed("mqtt") > 0
    /\ brokerSubs = SeqToSet(mqtt_topics)

\* C10: every document in the database carries, in its date field, the name
\* of the collection that holds it.
C10_DateIsCollectionName ==
    \A name \in DOMAIN collections :
        \A j \in 1..Len(collections[name]) : collections[name][j].date = name

\* documents were stored on both sides of midnight
C10_Witness ==
    /\ << 2023, 12, 8 >> \in DOMAIN collections
    /\ << 2023, 12, 9 >> \in DOMAIN collections

\* ---------------------------------------------------------------- liveness

\* the steps of the process itself: the interpreter keeps executing the
\* main block and the callback as long as a step is possible
ProcessStep ==
    \/ connect_to_mongodb
    \/ mongo_retry
    \/ connect_to_mqtt
    \/ mqtt_retry
    \/ subscribe
    \/ user_data_set
    \/ set_on_message
    \/ dispatch
    \/ h_decode
    \/ h_date
    \/ h_time
    \/ h_document
    \/ h_insert
    \/ h_log
    \/ loop_reconnect

LiveSpec == Init /\ [][Next]_vars /\ WF_vars(ProcessStep)

\* C8: if the database and the broker each eventually become and stay
\* reachable, the process eventually is in the receive loop with its topics
\* subscribed.
C8_StartupReachesRunning ==
    (<>[]mongoUp /\ <>[]brokerUp) => <>(pc = "loop_forever")

\* ------------------------------------------------- claims C11 .. C19

Written(i) == history[i].written # <<>>

\* the calendar date(s) of the interval in which message i was handled
HandledOn(i, d) ==
    /\ StrftimeDate(history[i].startedAt) = d
    /\ StrftimeDate(history[i].insertedAt) = d

\* C11: two messages handled on the same calendar date are stored in the
\* same collection, the one named after that date, whatever their topics
\* and payloads; a collection exists exactly from the first document
\* written to it (there is no declaration step).
C11_CollectionByDateOnly ==
    /\ \A i, j \in 1..Len(history) :
          (Written(i) /\ Written(j)) =>
              \A k \in 0..1 :
                  LET d == << 2023, 12, 8 + k >>
                  IN  (HandledOn(i, d) /\ HandledOn(j, d)) =>
                          /\ history[i].written[1].coll = d
                          /\ history[j].written[1].coll = d
    /\ DOMAIN collections =
          { history[i].written[1].coll : i \in { n \in 1..Len(history) : Written(n) } }
    /\ \A name \in DOMAIN collections : collections[name] # <<>>

\* two messages with different topics and payloads share one collection
C11_Witness ==
    /\ Len(history) = 2
    /\ Written(1) /\ Written(2)
    /\ history[1].topic # history[2].topic
    /\ history[1].payload # history[2].payload
    /\ history[1].written[1].coll = history[2].written[1].coll

\* the documents the handled messages wrote to collection name, in the
\* order the messages arrived
RECURSIVE DocsInArrivalOrder(_, _)
DocsInArrivalOrder(name, k) ==
    IF k = 0 THEN <<>>
    ELSE DocsInArrivalOrder(name, k - 1) \o
         (IF Written(k) /\ history[k].written[1].coll = name
          THEN << history[k].written[1].doc >> ELSE <<>>)

\* C12: messages are handled one at a time in arrival order: the k-th
\* handler invocation is for the k-th message received, every earlier
\* invocation has run to completion (its document inserted and logged)
\* before the next one starts, so at most one is in progress, and each
\* collection holds its documents in the order their messages arrived.
C12_OneAtATimeInOrder ==
    /\ \A i \in 1..Len(history) : history[i].id = i
    /\ \A i \in 1..(Len(history) - 1) : history[i].outcome = "stored"
    /\ (pc \in HandlerPcs) =>
          /\ history # <<>>
          /\ history[Len(history)].outcome = "in_progress"
          /\ cur.id = history[Len(history)].id
    /\ \A name \in DOMAIN collections :
          collections[name] = DocsInArrivalOrder(name, Len(history))

\* a second message is waiting in the receive buffer while the first one is
\* being inserted
C12_Witness ==
    /\ pc = "h_insert"
    /\ Len(history) = 1
    /\ inbox # <<>>

RECURSIVE SumOver(_, _, _)
SumOver(F(_), id, k) ==
    IF k = 0 THEN 0
    ELSE (IF history[k].id = id THEN F(k) ELSE 0) + SumOver(F, id, k - 1)

InsertCallsOf(k) == history[k].insertCalls

DocsOf(k) == Len(history[k].written)

Dropped(e) == e.outcome \in { "decode_error", "json_error", "write_error" }

\* C13: for every received message at most one insert is attempted and at
\* most one document is written, over all invocations of the handler for
\* it; a message that was dropped has no document, is not in the receive
\* buffer again and is not the message being handled.
C13_AtMostOnce ==
    /\ \A id \in 1..delivered :
          /\ SumOver(InsertCallsOf, id, Len(history)) <= 1
          /\ SumOver(DocsOf, id, Len(history)) <= 1
          /\ Len(SelectSeq(history, LAMBDA e : e.id = id))
               + Len(SelectSeq(inbox, LAMBDA m : m.id = id)) = 1
    /\ TotalDocs <= delivered
    /\ \A i \in 1..Len(history) :
          Dropped(history[i]) =>
              /\ history[i].written = <<>>
              /\ \A k \in 1..Len(inbox) : inbox[k].id # history[i].id
              /\ (pc \in HandlerPcs => cur.id # history[i].id)

\* a message whose insert failed stays unwritten after the database is
\* reachable again
C13_Witness ==
    \E i \in 1..Len(history) :
        /\ history[i].outcome = "write_error"
        /\ history[i].insertCalls = 1
        /\ mongoUp

IsMessageRecord(r) == r.level = "INFO" /\ r.msg = "Topic | Time | Payload"

MessageRecordCount == Len(SelectSeq(log, IsMessageRecord))

\* the log records emitted during the k-th handler invocation
RecordsOf(k) ==
    SubSeq(log, history[k].logStart + 1,
           IF k < Len(history) THEN history[k + 1].logStart ELSE Len(log))

\* the text of the payloads of Publications that are UTF-8, written out by
\* hand as code points
ExpectedText(p) ==
    IF p = PayloadInt THEN << 55 >>
    ELSE IF p = PayloadNegative THEN << 32, 45, 49, 50, 10 >>
    ELSE IF p = PayloadString THEN << 34, 233, 34 >>
    ELSE << 110, 111, 116, 45, 106 >>

\* C14: the per-message info record follows the successful insert and is
\* emitted once per stored message: there are never more such records than
\* documents, outside the handler their number equals the number of
\* documents, a message that was dropped has none, and the record of a
\* stored message carries its topic, the time stored in its document and
\* the raw payload text.
C14_InfoRecordPerStoredMessage ==
    /\ MessageRecordCount <= TotalDocs
    /\ (pc \notin HandlerPcs) => MessageRecordCount = TotalDocs
    /\ \A k \in 1..Len(history) :
          LET recs == SelectSeq(RecordsOf(k), IsMessageRecord)
          IN  /\ Dropped(history[k]) => recs = <<>>
              /\ ~Written(k) => recs = <<>>
              /\ history[k].outcome = "stored" =>
                    /\ Len(recs) = 1
                    /\ recs[1].args =
                          << history[k].topic,
                             history[k].written[1].doc.time,
                             ExpectedText(history[k].payload) >>

\* one message was stored and logged, the next one was dropped
C14_Witness ==
    /\ Len(history) = 2
    /\ history[1].outcome = "stored"
    /\ Dropped(history[2])
    /\ MessageRecordCount = 1

\* C15: the date and the time of every document come from one instant of
\* the clock during the handling of its message: some t between dispatch
\* and insert has date = date at t and time = time of day at t.
C15_DateAndTimeFromOneInstant ==
    \A i \in 1..Len(history) :
        Written(i) =>
            \E t \in history[i].startedAt..history[i].insertedAt :
                /\ history[i].written[1].doc.date = StrftimeDate(t)
                /\ history[i].written[1].doc.time = StrftimeTime(t)

\* C16: once connect_to_mongodb has returned a handle the database
\* connection is not revisited: no step makes another database connect
\* attempt or changes db, the registered userdata keeps that handle, and
\* the handler works on that handle for every message.
C16_DatabaseConnectedOnce ==
    [][ db # None =>
          /\ db' = db
          /\ attempts'.mongo = attempts.mongo
          /\ sleeps'.mongo = sleeps.mongo
          /\ (userdata.db # None => userdata'.db = db)
          /\ (pc' \in HandlerPcs => h'.db = db)
          /\ \A i \in 1..Len(history') :
                \A k \in 1..Len(history'[i].written) :
                    history'[i].written[k].db = db ]_vars

\* a document is written through the handle obtained before the broker
\* connect failed and was retried
C16_Witness ==
    /\ pc = "h_log"
    /\ Failed("mqtt") > 0
    /\ db # None
    /\ history[Len(history)].written # <<>>

\* C17: connect_to_mongodb returns a handle only when the server answered
\* the server_info round trip of that call, and one call is one attempt:
\* it logs "Connecting" once, constructs one client, and on a time-out logs
\* one error and returns None without trying again.
C17_OnePingedAttemptPerCall ==
    LET a == attempts.mongo
        Count(text) == Len(SelectSeq(log, LAMBDA r : r.msg = text))
    IN  /\ (db # None) = (a # <<>> /\ a[Len(a)].ok)
        /\ (db # None) => db = a[Len(a)].handle
        /\ Count("Connecting to MongoDB") = Len(a)
        /\ Count("The server is down or has refused the connection") = Failed("mongo")
        /\ Count("Connected to MongoDB") = Len(a) - Failed("mongo")
        /\ Count("Retrying to connect to MongoDB") = Len(sleeps.mongo)
        /\ \A i \in 1..Len(a) : a[i].handle = i
        /\ (pc = "mongo_retry") =>
              /\ db = None
              /\ ~a[Len(a)].ok
              /\ log[Len(log)].level = "ERROR"

\* the second call has timed out as well and returned None
C17_Witness ==
    /\ pc = "mongo_retry"
    /\ Len(attempts.mongo) = 2
    /\ db = None

AllAttempts == attempts.mongo \o attempts.mqtt

\* C18: every connect attempt has a handle of its own; the handle of a
\* failed attempt is not used again; client, the handle subscribed on, given
\* the userdata and the callback and run by loop_forever, is the handle of
\* the successful broker attempt, and the handle the handler writes through
\* is the handle of the successful database attempt.
C18_HandlesNotReused ==
    /\ \A i, j \in 1..Len(AllAttempts) :
          i # j => AllAttempts[i].handle # AllAttempts[j].handle
    /\ \A i \in 1..Len(AllAttempts) :
          ~AllAttempts[i].ok =>
              /\ db # AllAttempts[i].handle
              /\ client # AllAttempts[i].handle
              /\ sessionHandle # AllAttempts[i].handle
              /\ userdata.db # AllAttempts[i].handle
              /\ h.db # AllAttempts[i].handle
    /\ (pc \in RunningPcs \cup { "subscribe", "user_data_set", "set_on_message" }) =>
          /\ client = attempts.mqtt[Len(attempts.mqtt)].handle
          /\ attempts.mqtt[Len(attempts.mqtt)].ok
          /\ sessionHandle = client
    /\ \A i \in 1..Len(history) :
          /\ history[i].userdata.db = attempts.mongo[Len(attempts.mongo)].handle
          /\ \A k \in 1..Len(history[i].written) :
                /\ history[i].written[k].db = attempts.mongo[Len(attempts.mongo)].handle
                /\ attempts.mongo[Len(attempts.mongo)].ok

\* a document was written after one failed attempt at each dependency
C18_Witness ==
    /\ pc = "h_log"
    /\ Failed("mongo") = 1
    /\ Failed("mqtt") = 1
    /\ db = 2
    /\ client = 4

\* C19: every invocation of on_message happens with the callback and the
\* userdata registered: it finds the connected database handle and the
\* logger in userdata, also for a message that was received before the
\* registration.
C19_DispatchAfterRegistration ==
    /\ \A i \in 1..Len(history) :
          /\ history[i].userdata.db # None
          /\ history[i].userdata.db = db
          /\ history[i].userdata.logger
    /\ (pc \in HandlerPcs) =>
          /\ handlerSet
          /\ h.db # None
          /\ h.db = db
    /\ (~handlerSet \/ userdata = NoUserdata) => history = <<>>

\* a message was received after the topics were subscribed and waits in
\* the receive buffer, undispatched, while the callback is not registered
C19_Witness ==
    /\ pc = "set_on_message"
    /\ inbox # <<>>
    /\ ~handlerSet
    /\ history = <<>>

====
